---------------------------- MODULE Spec2Model ----------------------------
(***************************************************************************)
(* A model of src/src/art_proc.c (libnpnt permission-artifact processing): *)
(*   npnt_set_permart, npnt_verify_permart (with its two canonicalizing    *)
(*   scans), npnt_alloc_and_get_fence_points, npnt_get_max_altitude,       *)
(*   npnt_ist_date_time_to_unix_time, npnt_get_attr and                    *)
(*   npnt_populate_flight_params.                                          *)
(*                                                                         *)
(* Bytes are one-character strings, C strings are sequences of bytes with  *)
(* the terminating NUL implicit after the last element, and a C pointer    *)
(* that may be NULL is NULLp or Ptr(v), v being what it points to.         *)
(*                                                                         *)
(* Three specifications share the module:                                  *)
(*   Spec      the handle and npnt_set_permart called on it                *)
(*   SpecCanon one canonicalizing scan, one loop iteration per step        *)
(*   SpecTime  npnt_ist_date_time_to_unix_time on one timestamp            *)
(***************************************************************************)
EXTENDS Integers, Sequences, FiniteSets, TLC

VARIABLES
    \* ---- Spec: the handle (npnt_s) and what the last call did
    handle,             \* the npnt_s fields art_proc.c reads and writes
    lastRet,            \* value returned by the last npnt_set_permart call
    lastCall,           \* arguments and environment of the last call
    lastVerify,         \* what npnt_verify_permart did in the last call
    crashed,            \* the process was terminated by a fault
    \* ---- SpecCanon: one canonicalizing scan (lines 125-155 / 192-222)
    c_input,            \* the pieces the scanned range is made of
    c_garbage,          \* what last_empty_element held when the scan began
    curr_ptr,           \* uint16_t curr_ptr
    last_empty_element, \* char last_empty_element[20] and the bytes after it
    sha_stream,         \* bytes handed to update_sha1 so far
    c_maxw,             \* highest index of last_empty_element written so far
    c_pc,               \* "scan", "done" or "crash"
    \* ---- SpecTime: one call of npnt_ist_date_time_to_unix_time
    dt_string,          \* the argument
    date_time,          \* *date_time after the call
    dt_ret,             \* the return value
    dt_pc               \* "call" before the call, "ret" after it

vars == <<handle, lastRet, lastCall, lastVerify, crashed,
          c_input, c_garbage, curr_ptr, last_empty_element, sha_stream,
          c_maxw, c_pc, dt_string, date_time, dt_ret, dt_pc>>

specVars  == <<handle, lastRet, lastCall, lastVerify, crashed>>
canonVars == <<c_input, c_garbage, curr_ptr, last_empty_element, sha_stream,
               c_maxw, c_pc>>
timeVars  == <<dt_string, date_time, dt_ret, dt_pc>>

-----------------------------------------------------------------------------
(* Bytes, C strings and fixed-width integers                                *)

\* The NULL pointer, a pointer to v, and what a pointer points to.
NULLp == <<>>

Ptr(v) == <<v>>

Deref(p) == p[1]

\* The byte '\0'.
NUL == "NUL"

\* A byte read from memory the program does not own.
GARBAGE == "GARBAGE"

\* The ASCII characters with codes 32..95; PrintLo[i] has code i + 31.
PrintLo ==
    <<" ", "!", "\"", "#", "$", "%", "&">> \o <<"'">> \o <<"(", ")", "*", "+", ",", "-", ".", "/", "0", "1", "2", "3", "4", "5", "6", "7", "8", "9", ":", ";", "<", "=", ">", "?">> \o
    <<"@", "A", "B", "C", "D", "E", "F", "G", "H", "I", "J", "K", "L", "M", "N", "O", "P", "Q", "R", "S", "T", "U", "V", "W", "X", "Y", "Z", "[", "\\", "]", "^", "_">>

\* The ASCII characters with codes 97..126; PrintHi[i] has code i + 96.
PrintHi == <<"a", "b", "c", "d", "e", "f", "g", "h", "i", "j", "k", "l", "m", "n", "o", "p", "q", "r", "s", "t", "u", "v", "w", "x", "y", "z", "{", "|", "}", "~">>

\* The ASCII code of a byte.
CodeOf ==
    [c \in {PrintLo[i] : i \in DOMAIN PrintLo} \cup
           {PrintHi[i] : i \in DOMAIN PrintHi} |->
        IF \E i \in DOMAIN PrintLo : PrintLo[i] = c
        THEN 31 + (CHOOSE i \in DOMAIN PrintLo : PrintLo[i] = c)
        ELSE 96 + (CHOOSE i \in DOMAIN PrintHi : PrintHi[i] = c)]

Code(c) == IF c \in DOMAIN CodeOf THEN CodeOf[c] ELSE 0

Max(a, b) == IF a >= b THEN a ELSE b

\* Op applied to the value of v: v is computed once, as a C local is when it
\* is assigned, however often Op reads it.
With(v, Op(_)) == CHOOSE r \in {Op(x) : x \in {v}} : TRUE

\* Conversion of an integer to int8_t / int16_t / uint16_t (two's complement).
ToInt8(n) == LET m == n % 256 IN IF m >= 128 THEN m - 256 ELSE m

ToInt16(n) == LET m == n % 65536 IN IF m >= 32768 THEN m - 65536 ELSE m

ToUint16(n) == n % 65536

\* The byte at 1-based index k of the C string mem: its bytes, then the
\* terminating NUL; past that the memory is not the string's.
Rd(mem, k) ==
    IF k >= 1 /\ k <= Len(mem) THEN mem[k]
    ELSE IF k = Len(mem) + 1 THEN NUL
    ELSE GARBAGE

\* strstr(hay, needle): the 1-based index of the first occurrence, 0 for NULL.
StrStr(hay, needle) ==
    LET hits == {i \in 1..(Len(hay) - Len(needle) + 1) :
                    SubSeq(hay, i, i + Len(needle) - 1) = needle}
    IN  IF hits = {} THEN 0 ELSE CHOOSE i \in hits : \A j \in hits : i <= j

RECURSIVE Concat(_)
\* The concatenation of a sequence of sequences.
Concat(ss) == IF ss = <<>> THEN <<>> ELSE Head(ss) \o Concat(Tail(ss))

-----------------------------------------------------------------------------
(* The canonicalizing scan of npnt_verify_permart                           *)

\* sizeof last_empty_element
NameCap == 20

\* Bytes of the stack frame after last_empty_element that an out-of-bounds
\* write can land in without a fault; a write further out faults.
Slack == 4

BufMem == NameCap + Slack

\* last_empty_element with every byte zero.
ZeroBuf == [i \in 0..(BufMem - 1) |-> NUL]

\* last_empty_element is never initialised: what it holds when the first scan
\* starts is whatever the stack held.  Two contents stand for the builds: an
\* all-zero frame, and a frame holding a stale non-empty string.
InitBufs == {ZeroBuf, [ZeroBuf EXCEPT ![0] = "g"]}

\* last_empty_element[i] = c; a write past the modelled frame is lost.
Wr(buf, i, c) == IF i \in DOMAIN buf THEN [buf EXCEPT ![i] = c] ELSE buf

\* strlen(last_empty_element)
StrLen(buf) ==
    IF \E i \in DOMAIN buf : buf[i] = NUL
    THEN CHOOSE i \in DOMAIN buf :
            buf[i] = NUL /\ \A j \in DOMAIN buf : j < i => buf[j] # NUL
    ELSE BufMem

\* The bytes update_sha1(last_empty_element, strlen(last_empty_element)) reads.
NameOf(buf) == [k \in 1..StrLen(buf) |-> buf[k - 1]]

\* The tag-name capture loop (lines 128-138 and 195-205), entered with
\* curr_length = 1.  start is the 1-based index in mem of the range's first
\* byte, len the range length.  The loop copies byte after byte into
\* last_empty_element until it meets " " or ">" or the end of the range:
\* stops are the values of curr_length at which it would meet " " or ">",
\* cl the value it ends with, and index k - 1 receives the byte at
\* curr_length = k for every k below cl.
InnerLoop(mem, start, len, ptr, buf) ==
    With({j \in 1..(len - ptr - 1) : Rd(mem, start + ptr + j) \in {" ", ">"}},
         LAMBDA stops :
    With(IF stops = {} THEN len - ptr
         ELSE CHOOSE j \in stops : \A k \in stops : j <= k,
         LAMBDA cl :
    LET term  == IF stops = {} THEN NUL ELSE Rd(mem, start + ptr + cl)
        nulAt == IF term = " " THEN cl - 1 ELSE IF term = ">" THEN 0 ELSE -1
    IN  [cl   |-> cl,
         buf  |-> [i \in DOMAIN buf |->
                     IF i = nulAt THEN NUL
                     ELSE IF i + 1 < cl THEN Rd(mem, start + ptr + i + 1)
                     ELSE buf[i]],
         maxw |-> Max(nulAt, cl - 2)]))

\* One iteration of the scan loop (lines 126-154 and 193-221): the bytes it
\* hands to update_sha1, and curr_ptr and last_empty_element after it.
CanonIter(mem, start, len, ptr, buf) ==
    With(Rd(mem, start + ptr), LAMBDA c0 :
    With(IF c0 = "<"
         THEN InnerLoop(mem, start, len, ptr, buf)
         ELSE [cl |-> 1, buf |-> buf, maxw |-> -1],
         LAMBDA il :
    IF StrLen(il.buf) # 0 /\ c0 = "/" /\ Rd(mem, start + ptr + 1) = ">"
    THEN [emit |-> <<">", "<", "/">> \o NameOf(il.buf),
          buf  |-> Wr(il.buf, 0, NUL),
          ptr  |-> ToUint16(ptr + il.cl),
          maxw |-> il.maxw]
    ELSE [emit |-> [k \in 1..il.cl |-> Rd(mem, start + ptr + k - 1)],
          buf  |-> il.buf,
          ptr  |-> ToUint16(ptr + il.cl),
          maxw |-> il.maxw]))

\* The loop test and, when it holds, one iteration, on the scan state st =
\* [ptr, buf, stream, maxw].  The scan is followed no further once a write
\* has left the modelled frame.
ScanStep(mem, start, len, st) ==
    IF st.ptr < len /\ st.maxw < BufMem
    THEN With(CanonIter(mem, start, len, st.ptr, st.buf), LAMBDA it :
              [ptr |-> it.ptr, buf |-> it.buf, stream |-> st.stream \o it.emit,
               maxw |-> Max(st.maxw, it.maxw)])
    ELSE st

RECURSIVE ScanSteps(_, _, _, _, _)
\* n times ScanStep; the second half is skipped when the first ended the loop.
ScanSteps(mem, start, len, st, n) ==
    IF n <= 0 THEN st
    ELSE IF n = 1 THEN ScanStep(mem, start, len, st)
    ELSE With(ScanSteps(mem, start, len, st, n \div 2), LAMBDA half :
              IF half.ptr >= len THEN half
              ELSE With(n - n \div 2, LAMBDA rest :
                        ScanSteps(mem, start, len, half, rest)))

\* The whole scan loop from curr_ptr = ptr: the byte stream handed to
\* update_sha1, last_empty_element after it and the highest index written.
\* Every iteration advances curr_ptr, so len - ptr steps end the loop.
CanonScan(mem, start, len, ptr, buf, stream, maxw) ==
    With([ptr |-> ptr, buf |-> buf, stream |-> stream, maxw |-> maxw],
         LAMBDA st : With(len - ptr, LAMBDA n :
                          ScanSteps(mem, start, len, st, n)))

-----------------------------------------------------------------------------
(* SpecCanon: the scan on byte ranges built from XML pieces                 *)

\* Largest number of pieces in a scanned range.
MaxPieces == 2

\* A tag name of n bytes.
LongName(n) == [i \in 1..n |-> "n"]

\* The pieces: raw is the piece's bytes, canon the bytes canonical XML has
\* for it, selfClosing whether it is an empty-element tag.
Pieces ==
    { [raw |-> <<"<", "a", ">">>, canon |-> <<"<", "a", ">">>, selfClosing |-> FALSE],
      [raw |-> <<"<", "a", " ", "b", "=", "\"", "1", "\"", ">">>, canon |-> <<"<", "a", " ", "b", "=", "\"", "1", "\"", ">">>, selfClosing |-> FALSE],
      [raw |-> <<"<", "/", "a", ">">>, canon |-> <<"<", "/", "a", ">">>, selfClosing |-> FALSE],
      [raw |-> <<"x">>, canon |-> <<"x">>, selfClosing |-> FALSE],
      [raw |-> <<"/", ">">>, canon |-> <<"/", ">">>, selfClosing |-> FALSE],
      [raw |-> <<"<", "F", "o", "o", " ", "a", "=", "\"", "1", "\"", "/", ">">>, canon |-> <<"<", "F", "o", "o", " ", "a", "=", "\"", "1", "\"", ">", "<", "/", "F", "o", "o", ">">>,
       selfClosing |-> TRUE],
      [raw |-> <<"<", "F", "o", "o", "/", ">">>, canon |-> <<"<", "F", "o", "o", ">", "<", "/", "F", "o", "o", ">">>, selfClosing |-> TRUE] }
    \cup
    { [raw |-> <<"<">> \o LongName(n) \o <<" ", "c", "=", "\"", "1", "\"", ">">>,
       canon |-> <<"<">> \o LongName(n) \o <<" ", "c", "=", "\"", "1", "\"", ">">>,
       selfClosing |-> FALSE] : n \in (NameCap - 1)..(NameCap + 1) }

CanonInputs == UNION {[1..n -> Pieces] : n \in 1..MaxPieces}

RawOf(input) == Concat([i \in DOMAIN input |-> input[i].raw])

ExpectedOf(input) == Concat([i \in DOMAIN input |-> input[i].canon])

\* The scanned memory: the range, then the "<" of the marker that bounds it
\* ("<SignatureValue" or "<Signature").
MemOf(input) == RawOf(input) \o <<"<">>

InitCanon ==
    /\ c_input \in CanonInputs
    /\ c_garbage \in InitBufs
    /\ curr_ptr = 0
    /\ last_empty_element = c_garbage
    /\ sha_stream = <<>>
    /\ c_maxw = -1
    /\ c_pc = "scan"
    /\ handle = NULLp /\ lastRet = NULLp /\ lastCall = NULLp
    /\ lastVerify = NULLp /\ crashed = FALSE
    /\ dt_string = NULLp /\ date_time = NULLp /\ dt_ret = 0 /\ dt_pc = "idle"

\* One iteration of the scan loop.
CanonStep ==
    /\ c_pc = "scan"
    /\ curr_ptr < Len(RawOf(c_input))
    /\ c_maxw < BufMem
    /\ \E it \in {CanonIter(MemOf(c_input), 1, Len(RawOf(c_input)),
                            curr_ptr, last_empty_element)} :
           /\ curr_ptr' = it.ptr
           /\ last_empty_element' = it.buf
           /\ sha_stream' = sha_stream \o it.emit
           /\ c_maxw' = Max(c_maxw, it.maxw)
    /\ UNCHANGED <<c_input, c_garbage, c_pc>>
    /\ UNCHANGED specVars /\ UNCHANGED timeVars

\* The loop condition fails: the scan is over.
CanonDone ==
    /\ c_pc = "scan"
    /\ curr_ptr >= Len(RawOf(c_input))
    /\ c_maxw < BufMem
    /\ c_pc' = "done"
    /\ UNCHANGED <<c_input, c_garbage, curr_ptr, last_empty_element,
                   sha_stream, c_maxw>>
    /\ UNCHANGED specVars /\ UNCHANGED timeVars

\* A write outside last_empty_element is undefined: the build may fault
\* (stack protector, unmapped page) or go on with the frame overwritten.
CanonCrash ==
    /\ c_pc = "scan"
    /\ c_maxw >= NameCap
    /\ c_pc' = "crash"
    /\ UNCHANGED <<c_input, c_garbage, curr_ptr, last_empty_element,
                   sha_stream, c_maxw>>
    /\ UNCHANGED specVars /\ UNCHANGED timeVars

NextCanon == CanonStep \/ CanonDone \/ CanonCrash

SpecCanon == InitCanon /\ [][NextCanon]_vars

-----------------------------------------------------------------------------
(* npnt_ist_date_time_to_unix_time and SpecTime                             *)

\* The length a timestamp must have.
TimeLen == 19

\* struct tm counts years from 1900.
TmYearBase == 1900

\* The IST to UTC offset, taken from the hour and the minute fields.
IstHours == 5

IstMinutes == 30

Digits == {"0", "1", "2", "3", "4", "5", "6", "7", "8", "9"}

RECURSIVE AtoiDigits(_, _)
\* The decimal value of the leading digits of s, continuing from acc.
AtoiDigits(s, acc) ==
    IF s = <<>> \/ Head(s) \notin Digits THEN acc
    ELSE AtoiDigits(Tail(s), acc * 10 + (Code(Head(s)) - 48))

RECURSIVE SkipSpaces(_)
SkipSpaces(s) ==
    IF s # <<>> /\ Head(s) = " " THEN SkipSpaces(Tail(s)) ELSE s

\* atoi: leading blanks, an optional sign, then digits up to the first byte
\* that is none; 0 when there is no digit.
Atoi(s) ==
    LET t == SkipSpaces(s)
    IN  IF t # <<>> /\ Head(t) = "-" THEN 0 - AtoiDigits(Tail(t), 0)
        ELSE IF t # <<>> /\ Head(t) = "+" THEN AtoiDigits(Tail(t), 0)
        ELSE AtoiDigits(t, 0)

\* memcpy(data, &dt_string[off], n); data[n] = '\0'; atoi(data)
Field(s, off, n) == Atoi(SubSeq(s, off + 1, off + n))

\* The conversion with the offset taken from the hour only after borrowing a
\* whole hour for the minutes (a normalising variant, not the code's).
IstDateTimeToUnixTimeBorrow(dt, tm) ==
    IF dt = NULLp THEN [ret |-> 0, tm |-> tm, fault |-> TRUE]
    ELSE IF Len(Deref(dt)) # TimeLen
    THEN [ret |-> -1, tm |-> tm, fault |-> FALSE]
    ELSE IF tm = NULLp THEN [ret |-> -1, tm |-> tm, fault |-> FALSE]
    ELSE LET s == Deref(dt)
         IN  [ret |-> 0, fault |-> FALSE,
              tm |-> Ptr([tm_year |-> Field(s, 0, 4) - TmYearBase,
                          tm_mon  |-> Field(s, 5, 2),
                          tm_mday |-> Field(s, 8, 2),
                          tm_hour |-> IF Field(s, 14, 2) < IstMinutes
                                      THEN Field(s, 11, 2) - IstHours - 1
                                      ELSE Field(s, 11, 2) - IstHours,
                          tm_min  |-> (Field(s, 14, 2) - IstMinutes) % 60,
                          tm_sec  |-> Field(s, 17, 2)])]

\* npnt_ist_date_time_to_unix_time(dt_string, date_time): the return value
\* and *date_time after the call (the fields the function sets; memset zeroes
\* the others).  strlen of a NULL dt_string is a fault.
IstDateTimeToUnixTime(dt, tm) ==
    IF dt = NULLp THEN [ret |-> 0, tm |-> tm, fault |-> TRUE]
    ELSE IF Len(Deref(dt)) # TimeLen
    THEN [ret |-> -1, tm |-> tm, fault |-> FALSE]
    ELSE IF tm = NULLp THEN [ret |-> -1, tm |-> tm, fault |-> FALSE]
    ELSE LET s == Deref(dt)
         IN  [ret |-> 0, fault |-> FALSE,
              tm |-> Ptr([tm_year |-> Field(s, 0, 4) - TmYearBase,
                          tm_mon  |-> Field(s, 5, 2),
                          tm_mday |-> Field(s, 8, 2),
                          tm_hour |-> Field(s, 11, 2) - IstHours,
                          tm_min  |-> Field(s, 14, 2) - IstMinutes,
                          tm_sec  |-> Field(s, 17, 2)])]

\* A struct tm as the caller's handle holds it before the call.
ZeroTm == [tm_year |-> 0, tm_mon |-> 0, tm_mday |-> 0,
           tm_hour |-> 0, tm_min |-> 0, tm_sec |-> 0]

\* Timestamps in the fixed layout YYYY-MM-DDTHH:MM:SS.
LayoutTimes ==
    { y \o <<"-">> \o mo \o <<"-">> \o d \o <<"T">> \o h \o <<":">> \o mi \o <<":">> \o s :
        y  \in {<<"2", "0", "2", "0">>, <<"1", "9", "9", "9">>},
        mo \in {<<"0", "1">>, <<"1", "2">>},
        d  \in {<<"0", "1">>, <<"3", "1">>},
        h  \in {<<"0", "0">>, <<"0", "4">>, <<"0", "5">>, <<"1", "0">>, <<"2", "3">>},
        mi \in {<<"0", "0">>, <<"2", "9">>, <<"3", "0">>, <<"5", "9">>},
        s  \in {<<"0", "0">>, <<"5", "9">>} }

\* Timestamps of another length, and of the right length with fields that
\* are not two digits.
OddTimes ==
    { <<>>, <<"2", "0", "2", "0", "-", "0", "1", "-", "0", "1">>, <<"2", "0", "2", "0", "-", "0", "1", "-", "0", "1", "T", "1", "0", ":", "0", "0", ":", "0">>, <<"2", "0", "2", "0", "-", "0", "1", "-", "0", "1", "T", "1", "0", ":", "0", "0", ":", "0", "0", "0">>,
      <<"2", "0", "2", "0", "-", "0", "1", "-", "0", "1", "T", " ", "7", ":", "0", "x", ":", "-", "1">>, <<"2", "0", "x", "0", "/", "0", "1", "/", "0", "1", " ", "1", "0", ".", "0", "0", ".", "0", "0">> }

TimeInputs == {Ptr(t) : t \in LayoutTimes \cup OddTimes} \cup {NULLp}

InitTime ==
    /\ dt_string \in TimeInputs
    /\ date_time \in {Ptr(ZeroTm), NULLp}
    /\ dt_ret = 0
    /\ dt_pc = "call"
    /\ handle = NULLp /\ lastRet = NULLp /\ lastCall = NULLp
    /\ lastVerify = NULLp /\ crashed = FALSE
    /\ c_input = <<>> /\ c_garbage = NULLp /\ curr_ptr = 0
    /\ last_empty_element = NULLp /\ sha_stream = <<>> /\ c_maxw = -1
    /\ c_pc = "idle"

\* The call and its return (or the fault of strlen(NULL)).
TimeCall ==
    /\ dt_pc = "call"
    /\ \E r \in {IstDateTimeToUnixTime(dt_string, date_time)} :
           /\ date_time' = r.tm
           /\ dt_ret' = r.ret
           /\ dt_pc' = IF r.fault THEN "crash" ELSE "ret"
    /\ UNCHANGED dt_string
    /\ UNCHANGED specVars /\ UNCHANGED canonVars

NextTime == TimeCall

SpecTime == InitTime /\ [][NextTime]_vars

-----------------------------------------------------------------------------
(* The collaborators art_proc.c calls: digest, base64, signature check      *)

\* sizeof digest_value: the digest is 20 bytes.
DigestLen == 20

RECURSIVE WeightedSum(_, _, _, _)
\* The sum over i in lo..hi of (Code(stream[i]) + k) * (i + k).
WeightedSum(stream, lo, hi, k) ==
    IF lo > hi THEN 0
    ELSE IF lo = hi THEN (Code(stream[lo]) + k) * (lo + k)
    ELSE WeightedSum(stream, lo, (lo + hi) \div 2, k)
         + WeightedSum(stream, (lo + hi) \div 2 + 1, hi, k)

\* reset_sha1 / update_sha1 / final_sha1: the digest of the byte stream fed
\* between a reset and the final.  A stand-in for SHA-1: DigestLen bytes, each
\* a position-weighted checksum of the stream.
Sha1(stream) ==
    With(stream, LAMBDA s :
         [k \in 1..DigestLen |-> WeightedSum(s, 1, Len(s), k) % 256])

B64Alphabet ==
    <<"A", "B", "C", "D", "E", "F", "G", "H", "I", "J", "K", "L", "M", "N", "O", "P", "Q", "R", "S", "T", "U", "V", "W", "X", "Y", "Z", "a", "b", "c", "d", "e", "f", "g", "h", "i", "j", "k", "l", "m", "n", "o", "p", "q", "r", "s", "t", "u", "v", "w", "x", "y", "z", "0", "1", "2", "3", "4", "5", "6", "7", "8", "9", "+", "/">>

B64Char(n) == B64Alphabet[n + 1]

\* base64_encode: four characters for every three bytes, "=" padding.
\* Character j of group g encodes six bits of the bytes 3g+1 .. 3g+3.
Base64Encode(bytes) ==
    With(bytes, LAMBDA b :
    LET n     == Len(b)
        at(i) == IF i <= n THEN b[i] ELSE 0
    IN  [c \in 1..(4 * ((n + 2) \div 3)) |->
            LET g  == (c - 1) \div 4
                j  == (c - 1) % 4
                b1 == at(3 * g + 1)
                b2 == at(3 * g + 2)
                b3 == at(3 * g + 3)
            IN  IF j = 0 THEN B64Char(b1 \div 4)
                ELSE IF j = 1 THEN B64Char((b1 % 4) * 16 + b2 \div 16)
                ELSE IF j = 2
                THEN IF 3 * g + 2 > n THEN "="
                     ELSE B64Char((b2 % 16) * 4 + b3 \div 64)
                ELSE IF 3 * g + 3 > n THEN "=" ELSE B64Char(b3 % 64)])

\* The ASCII codes of a byte sequence.
Codes(s) == [i \in 1..Len(s) |-> Code(s[i])]

\* The text of a SignatureValue element stands for the signature it encodes:
\* [signs |-> d] is the issuer's signature over the digest d (base64_decode
\* of the text yields it), and the signature made by anyone else signs <<>>.
\* npnt_check_authenticity(handle, digest, 20, raw_signature, len): positive
\* when the signature is the issuer's over this digest.
CheckAuthenticity(digest, sig) == IF sig.signs = digest THEN 1 ELSE 0

-----------------------------------------------------------------------------
(* Return codes (npnt.h): zero for success, negative for every error        *)

NPNT_OK == "0"

NPNT_UNALLOC_HANDLE == "NPNT_UNALLOC_HANDLE"

NPNT_ALREADY_SET == "NPNT_ALREADY_SET"

NPNT_PARSE_FAILED == "NPNT_PARSE_FAILED"

NPNT_INV_ART == "NPNT_INV_ART"

NPNT_INV_SIGN == "NPNT_INV_SIGN"

NPNT_INV_AUTH == "NPNT_INV_AUTH"

NPNT_INV_DGST == "NPNT_INV_DGST"

NPNT_BAD_FENCE == "NPNT_BAD_FENCE"

NPNT_INV_BAD_ALT == "NPNT_INV_BAD_ALT"

NPNT_INV_FPARAMS == "NPNT_INV_FPARAMS"

\* Not a return code: the call did not return, the process faulted.
FAULT == "FAULT"

-----------------------------------------------------------------------------
(* npnt_verify_permart                                                      *)

TagSignedInfo == <<"<", "S", "i", "g", "n", "e", "d", "I", "n", "f", "o", ">">>

TagSignatureValue == <<"<", "S", "i", "g", "n", "a", "t", "u", "r", "e", "V", "a", "l", "u", "e">>

TagUAPermission == <<"<", "U", "A", "P", "e", "r", "m", "i", "s", "s", "i", "o", "n", ">">>

TagSignature == <<"<", "S", "i", "g", "n", "a", "t", "u", "r", "e">>

TagSignatureEnd == <<"<", "/", "S", "i", "g", "n", "a", "t", "u", "r", "e", ">">>

\* The literal fed to the digest before the SignedInfo body (lines 113-114).
SignedInfoNs ==
    <<"<", "S", "i", "g", "n", "e", "d", "I", "n", "f", "o", " ", "x", "m", "l", "n", "s", "=", "\"", "h", "t", "t", "p", ":", "/", "/", "w", "w", "w", ".", "w", "3", ".", "o", "r", "g", "/", "2", "0", "0", "0", "/", "0", "9", "/", "x", "m", "l", "d", "s", "i", "g", "#", "\"", ">">>

\* The address of byte i (1-based) of the string stored at addr; 0 stands
\* for "no such byte" and gives NULL, as strstr does.
AddrOf(addr, i) == IF i = 0 THEN 0 ELSE addr + i - 1

\* A scan loop (lines 125-155 or 192-222) over the len bytes that start at
\* index start of raw.  Two things the loop does not guard against are
\* undefined: reading past the string's memory (len larger than what is left
\* of the string) and writing outside last_empty_element.  With ub = "crash"
\* the build faults there; with ub = "go" it reads unknown bytes (one GARBAGE
\* byte stands for them) and overwrites the frame after the buffer.
RangeScan(raw, start, len, buf, ub) ==
    With(Len(raw) + 2 - start, LAMBDA avail :
    With(CanonScan(raw, start, IF len > avail THEN avail ELSE len,
                   0, buf, <<>>, -1),
         LAMBDA sc :
    LET over == len > avail
    IN  IF (over \/ sc.maxw >= NameCap) /\ ub = "crash"
        THEN [fault |-> TRUE, stream |-> <<>>, buf |-> buf, maxw |-> sc.maxw]
        ELSE IF sc.maxw >= BufMem
        THEN [fault |-> TRUE, stream |-> <<>>, buf |-> buf, maxw |-> sc.maxw]
        ELSE [fault |-> FALSE,
              stream |-> IF over THEN sc.stream \o <<GARBAGE>> ELSE sc.stream,
              buf |-> sc.buf, maxw |-> sc.maxw]))

\* Lines 110-156: locate the SignedInfo body and digest it.  addr is the
\* address raw is stored at, garbage what last_empty_element holds on entry.
\* ret is NPNT_OK when the stage went through, fed the artifact bytes handed
\* to update_sha1, digest the value final_sha1 gave.
VerifySignedInfo(raw, addr, garbage, ub) ==
    With(StrStr(raw, TagSignedInfo), LAMBDA si :
    With(StrStr(raw, TagSignatureValue), LAMBDA sv :
    \* strstr(...) + strlen("<SignedInfo>"): NULL + 12 when not found
    With(AddrOf(addr, si) + Len(TagSignedInfo), LAMBDA siPtr :
    With(ToInt16(AddrOf(addr, sv) - siPtr), LAMBDA silen :
    LET none  == [ret |-> NPNT_INV_ART, fed |-> <<>>, buf |-> garbage,
                  digest |-> <<>>, maxw |-> -1]
        fault == [none EXCEPT !.ret = FAULT]
    IN  IF siPtr = 0 THEN none
        ELSE IF silen < 0 THEN none
        ELSE IF si = 0 /\ silen > 0
        THEN \* signed_info is the address 12: not the program's memory
             IF ub = "crash" THEN fault
             ELSE [ret |-> NPNT_OK, fed |-> <<GARBAGE>>, buf |-> garbage,
                   digest |-> Sha1(SignedInfoNs \o <<GARBAGE>>), maxw |-> -1]
        ELSE With(RangeScan(raw, si + Len(TagSignedInfo), silen, garbage, ub),
                  LAMBDA r :
                  IF r.fault THEN [fault EXCEPT !.maxw = r.maxw]
                  ELSE [ret |-> NPNT_OK, fed |-> r.stream, buf |-> r.buf,
                        digest |-> Sha1(SignedInfoNs \o r.stream),
                        maxw |-> r.maxw])))))

\* Lines 158-170: fetch the SignatureValue text and check the signature.
VerifyAuth(tree, digest) ==
    IF tree.signatureValue = NULLp
    THEN [ret |-> NPNT_INV_SIGN, authCalled |-> FALSE]
    ELSE IF CheckAuthenticity(digest, Deref(tree.signatureValue)) <= 0
    THEN [ret |-> NPNT_INV_AUTH, authCalled |-> TRUE]
    ELSE [ret |-> NPNT_OK, authCalled |-> TRUE]

\* Lines 172-227: locate the permission body, digest its canonical form and
\* then, verbatim, what follows "</Signature>".
VerifyBody(raw, addr, buf, ub) ==
    With(StrStr(raw, TagUAPermission), LAMBDA up :
    With(StrStr(raw, TagSignature), LAMBDA sg :
    With(StrStr(raw, TagSignatureEnd), LAMBDA es :
    With(ToInt16(AddrOf(addr, sg) - AddrOf(addr, up)), LAMBDA plen :
    LET none  == [ret |-> NPNT_INV_ART, fed |-> <<>>, digest |-> <<>>,
                  maxw |-> -1]
        fault == [none EXCEPT !.ret = FAULT]
        \* strstr(...) + strlen("</Signature>"): the address 12 when not
        \* found, and strlen reads from there
        tail  == IF es = 0 THEN <<GARBAGE>>
                 ELSE SubSeq(raw, es + Len(TagSignatureEnd), Len(raw))
    IN  IF up = 0 THEN none
        ELSE IF plen < 0 THEN none
        ELSE With(RangeScan(raw, up, plen, buf, ub), LAMBDA r :
                  IF r.fault THEN [fault EXCEPT !.maxw = r.maxw]
                  ELSE IF es = 0 /\ ub = "crash"
                  THEN [fault EXCEPT !.maxw = r.maxw, !.fed = r.stream]
                  ELSE [ret |-> NPNT_OK, fed |-> r.stream,
                        digest |-> Sha1(r.stream \o tail),
                        maxw |-> r.maxw])))))

\* Lines 234-239 with the loop bound n in place of
\* base64_digest_value_len - 1: the comparison of the first n bytes.
DigestLoop(enc, rcvd, n) ==
    IF \E i \in 0..(n - 1) : enc[i + 1] # Rd(rcvd, i + 1)
    THEN NPNT_INV_DGST
    ELSE NPNT_OK

\* Lines 228-239: encode the digest and compare it with the DigestValue
\* text.  mxmlGetOpaque gives NULL when there is no such text, and the loop
\* then reads through the NULL pointer: a fault, or (ub = "go") bytes that
\* are not the encoding.
VerifyDigest(tree, digest, ub) ==
    With(Base64Encode(digest), LAMBDA enc :
    With(ToUint16(Len(enc)), LAMBDA len :
    IF tree.digestValue = NULLp
    THEN IF len - 1 <= 0 THEN NPNT_OK
         ELSE IF ub = "crash" THEN FAULT ELSE NPNT_INV_DGST
    ELSE DigestLoop(enc, Deref(tree.digestValue), len - 1)))

\* What the handle's stored artifact made npnt_verify_permart do, when it
\* was not called.
NoVerify ==
    [ret |-> NPNT_OK, called |-> FALSE, siFed |-> <<>>, bodyFed |-> <<>>,
     authCalled |-> FALSE, authOk |-> FALSE, digest |-> <<>>, maxw |-> -1]

\* npnt_verify_permart(handle): the return value (or FAULT) and what the
\* call did: the artifact bytes it canonicalized in each pass, whether it
\* called the signature primitive and with what result, the body digest it
\* computed, and the highest index of last_empty_element it wrote.
Verify(raw, addr, tree, garbage, ub) ==
    With(VerifySignedInfo(raw, addr, garbage, ub), LAMBDA s1 :
    With([NoVerify EXCEPT !.called = TRUE, !.ret = s1.ret,
                          !.siFed = s1.fed, !.maxw = s1.maxw],
         LAMBDA r1 :
    IF s1.ret # NPNT_OK THEN r1
    ELSE
    With(VerifyAuth(tree, s1.digest), LAMBDA s2 :
    With([r1 EXCEPT !.ret = s2.ret, !.authCalled = s2.authCalled],
         LAMBDA r2 :
    IF s2.ret # NPNT_OK THEN r2
    ELSE
    With(VerifyBody(raw, addr, s1.buf, ub), LAMBDA s3 :
    With([r2 EXCEPT !.authOk = TRUE, !.ret = s3.ret,
                    !.bodyFed = s3.fed, !.digest = s3.digest,
                    !.maxw = Max(s1.maxw, s3.maxw)],
         LAMBDA r3 :
    IF s3.ret # NPNT_OK THEN r3
    ELSE [r3 EXCEPT !.ret = VerifyDigest(tree, s3.digest, ub)]))))))

-----------------------------------------------------------------------------
(* The parsed tree (mxml) as art_proc.c queries it                          *)
(*                                                                         *)
(* A tree is a record of what the queries of art_proc.c return:            *)
(*   signatureValue   mxmlGetOpaque of the first SignatureValue element    *)
(*   digestValue      mxmlGetOpaque of the first DigestValue element       *)
(*   coordinates      the children of the first Coordinates element, each  *)
(*                    [element, latitude, longitude]; element is NULLp for *)
(*                    a node that is no element                            *)
(*   flightParameters the attributes of the first FlightParameters element *)
(*   uaDetails        the attributes of the first UADetails element        *)
(* each NULLp when the element (or the text, or the attribute) is absent.  *)

RECURSIVE DigitRun(_)
\* The number of leading digits of s.
DigitRun(s) ==
    IF s = <<>> \/ Head(s) \notin Digits THEN 0 ELSE 1 + DigitRun(Tail(s))

\* The first three fractional digits of d as thousandths.
FracMilli(d) ==
    LET n == IF DigitRun(d) > 3 THEN 3 ELSE DigitRun(d)
        v == AtoiDigits(SubSeq(d, 1, n), 0)
    IN  IF n = 0 THEN 0 ELSE IF n = 1 THEN v * 100
        ELSE IF n = 2 THEN v * 10 ELSE v

\* atof, in thousandths: leading blanks, an optional sign, digits, an
\* optional fraction; text that is no number gives 0 and is not rejected.
Atof(s) ==
    LET t    == SkipSpaces(s)
        neg  == t # <<>> /\ Head(t) = "-"
        u    == IF t # <<>> /\ Head(t) \in {"-", "+"} THEN Tail(t) ELSE t
        n    == DigitRun(u)
        rest == SubSeq(u, n + 1, Len(u))
        mag  == AtoiDigits(u, 0) * 1000
                + (IF rest # <<>> /\ Head(rest) = "."
                   THEN FracMilli(Tail(rest)) ELSE 0)
    IN  IF neg THEN 0 - mag ELSE mag

TagCoordinate == <<"C", "o", "o", "r", "d", "i", "n", "a", "t", "e">>

\* mxmlGetElement(node) is not NULL and is "Coordinate" (lines 261-268).
IsCoordinate(node) ==
    node.element # NULLp /\ Deref(node.element) = TagCoordinate

\* npnt_alloc_and_get_fence_points(handle, vertlat, vertlon): the int8_t it
\* returns and the arrays its two parameters point to when it returns.  The
\* parameters are the function's own copies of the pointers: the arrays are
\* reachable through them only.  mallocOk: both malloc calls succeed.
AllocAndGetFencePoints(tree, mallocOk) ==
    With(SelectSeq(IF tree.coordinates = NULLp THEN <<>>
                   ELSE Deref(tree.coordinates),
                   IsCoordinate),
         LAMBDA coords :
    LET nverts == ToUint16(Len(coords))
        bad    == \E i \in DOMAIN coords :
                     coords[i].latitude = NULLp \/ coords[i].longitude = NULLp
    IN  IF ~mallocOk
        THEN [ret |-> -1, vertlat |-> NULLp, vertlon |-> NULLp]
        ELSE IF bad
        THEN [ret |-> -1, vertlat |-> NULLp, vertlon |-> NULLp]
        ELSE [ret |-> ToInt8(nverts),
              vertlat |-> Ptr([i \in DOMAIN coords |->
                                  Atof(Deref(coords[i].latitude))]),
              vertlon |-> Ptr([i \in DOMAIN coords |->
                                  Atof(Deref(coords[i].longitude))])])

\* npnt_get_max_altitude(handle, &handle->fence.maxAltitude): the return
\* value and the altitude stored (old when nothing is stored).
GetMaxAltitude(tree, old) ==
    IF tree.flightParameters = NULLp THEN [ret |-> -1, altitude |-> old]
    ELSE IF Deref(tree.flightParameters).maxAltitude = NULLp
    THEN [ret |-> -1, altitude |-> old]
    ELSE [ret |-> 0,
          altitude |-> Atof(Deref(Deref(tree.flightParameters).maxAltitude))]

\* npnt_get_attr(node, attr): a malloc'ed copy of the attribute's value, NULL
\* when the attribute is absent or malloc fails.
GetAttr(value, mallocOk) ==
    IF value = NULLp THEN NULLp
    ELSE IF ~mallocOk THEN NULLp
    ELSE value

\* npnt_populate_flight_params(handle): the return value, handle->params
\* after the call, and whether the call faulted (strlen of an absent time
\* attribute).
PopulateFlightParams(tree, params, mallocOk, ub) ==
    IF tree.uaDetails = NULLp
    THEN [ret |-> NPNT_INV_FPARAMS, params |-> params, fault |-> FALSE]
    ELSE IF tree.flightParameters = NULLp
    THEN [ret |-> NPNT_INV_FPARAMS, params |-> params, fault |-> FALSE]
    ELSE
    LET ua  == Deref(tree.uaDetails)
        fp  == Deref(tree.flightParameters)
        p1  == [params EXCEPT !.uinNo = GetAttr(ua.uinNo, mallocOk)]
        p2  == [p1 EXCEPT !.adcNumber = GetAttr(fp.adcNumber, mallocOk)]
        p3  == [p2 EXCEPT !.ficNumber = GetAttr(fp.ficNumber, mallocOk)]
        te  == IstDateTimeToUnixTime(fp.flightEndTime, Ptr(p3.flightEndTime))
        p4  == [p3 EXCEPT !.flightEndTime = Deref(te.tm)]
        ts  == IstDateTimeToUnixTime(fp.flightStartTime,
                                     Ptr(p4.flightStartTime))
        p5  == [p4 EXCEPT !.flightStartTime = Deref(ts.tm)]
        bad(p) == [ret |-> NPNT_INV_FPARAMS, params |-> p, fault |-> FALSE]
        \* strlen(NULL): a fault, or (ub = "go") a length that is not 19
        nul(p) == IF ub = "crash"
                  THEN [ret |-> FAULT, params |-> p, fault |-> TRUE]
                  ELSE bad(p)
    IN  IF p1.uinNo = NULLp THEN bad(p1)
        ELSE IF p2.adcNumber = NULLp THEN bad(p2)
        ELSE IF p3.ficNumber = NULLp THEN bad(p3)
        ELSE IF te.fault THEN nul(p3)
        ELSE IF te.ret < 0 THEN bad(p4)
        ELSE IF ts.fault THEN nul(p4)
        ELSE IF ts.ret < 0 THEN bad(p5)
        ELSE [ret |-> NPNT_OK, params |-> p5, fault |-> FALSE]

-----------------------------------------------------------------------------
(* The handle and npnt_set_permart                                          *)

\* The handle after construction: every pointer NULL, every number zero.
ZeroHandle ==
    [raw_permart     |-> NULLp,
     raw_addr        |-> 0,
     raw_permart_len |-> 0,
     parsed_permart  |-> NULLp,
     fence  |-> [nverts |-> 0, vertlat |-> NULLp, vertlon |-> NULLp,
                 maxAltitude |-> 0],
     params |-> [uinNo |-> NULLp, adcNumber |-> NULLp, ficNumber |-> NULLp,
                 flightStartTime |-> ZeroTm, flightEndTime |-> ZeroTm]]

\* base64_decode(permart, permart_length, &len): the decoded bytes, NULL
\* when the input is no base64 text.
Base64Decode(permart) ==
    IF permart.encoded THEN Ptr(permart.doc.xml) ELSE NULLp

\* mxmlLoadString(NULL, raw, MXML_OPAQUE_CALLBACK): the tree of the document
\* raw holds, NULL when raw is no XML document.
MxmlLoadString(raw, permart) ==
    IF raw = permart.doc.xml THEN permart.doc.tree ELSE NULLp

\* A guard that looks at the parsed tree instead of the raw bytes.
AlreadySetByTree(h) == h.parsed_permart # NULLp

\* Lines 38-40: the handle already holds raw bytes.
AlreadySet(h) == h.raw_permart # NULLp

\* Lines 67-89 of npnt_set_permart, entered with the handle h whose artifact
\* verified: fence, altitude, flight parameters.
SetAfterVerify(h, tree, env) ==
    With(AllocAndGetFencePoints(tree, env.failAlloc # "fence"), LAMBDA f :
    With([h EXCEPT !.fence.nverts = IF f.ret <= 0 THEN 0 ELSE f.ret],
         LAMBDA h1 :
    IF f.ret <= 0 THEN [handle |-> h1, ret |-> NPNT_BAD_FENCE]
    ELSE
    With(GetMaxAltitude(tree, h1.fence.maxAltitude), LAMBDA a :
    With([h1 EXCEPT !.fence.maxAltitude = a.altitude], LAMBDA h2 :
    IF a.ret < 0 THEN [handle |-> h2, ret |-> NPNT_INV_BAD_ALT]
    ELSE
    With(PopulateFlightParams(tree, h2.params, env.failAlloc # "attr",
                              env.ub),
         LAMBDA p :
    With([h2 EXCEPT !.params = p.params], LAMBDA h3 :
    IF p.fault THEN [handle |-> h3, ret |-> FAULT]
    ELSE IF p.ret # NPNT_OK
    THEN [handle |-> [h3 EXCEPT !.fence.nverts = 0],
          ret |-> NPNT_INV_FPARAMS]
    ELSE [handle |-> h3, ret |-> NPNT_OK]))))))

\* npnt_set_permart(handle, permart, permart_length, base64_encoded) on an
\* allocated handle h: the handle after the call, the value returned (FAULT
\* when the call does not return) and what npnt_verify_permart did.
\* env is what the call depends on besides its arguments: the address malloc
\* gives (addr), the stack contents (garbage), which allocation fails if any
\* (failAlloc) and what the build does on undefined behaviour (ub).
SetPermartResult(h, permart, b64, env) ==
    IF AlreadySet(h)
    THEN [handle |-> h, ret |-> NPNT_ALREADY_SET, verify |-> NoVerify]
    ELSE
    With(IF env.failAlloc = "raw" THEN NULLp
         ELSE IF b64 THEN Base64Decode(permart)
         ELSE Ptr(permart.text),
         LAMBDA rawp :
    With([h EXCEPT !.raw_permart = rawp,
                   !.raw_addr = IF rawp = NULLp THEN 0 ELSE env.addr,
                   !.raw_permart_len =
                       IF b64 /\ rawp # NULLp THEN Len(Deref(rawp))
                       ELSE h.raw_permart_len],
         LAMBDA h1 :
    IF rawp = NULLp
    THEN [handle |-> h1, ret |-> NPNT_PARSE_FAILED, verify |-> NoVerify]
    ELSE
    With(Deref(rawp), LAMBDA raw :
    With(MxmlLoadString(raw, permart), LAMBDA tree :
    With([h1 EXCEPT !.parsed_permart = tree], LAMBDA h2 :
    IF tree = NULLp
    THEN [handle |-> h2, ret |-> NPNT_PARSE_FAILED, verify |-> NoVerify]
    ELSE
    With(Verify(raw, env.addr, Deref(tree), env.garbage, env.ub), LAMBDA v :
    IF v.ret # NPNT_OK
    THEN [handle |-> h2, ret |-> v.ret, verify |-> v]
    ELSE With(SetAfterVerify(h2, Deref(tree), env), LAMBDA rest :
              [handle |-> rest.handle, ret |-> rest.ret, verify |-> v])))))))

-----------------------------------------------------------------------------
(* The artifacts and environments the handle is exercised with              *)

\* Largest number of children of Coordinates among the enumerated fences.
MaxCoords == 2

\* Addresses malloc may give the raw bytes: one in the lower and one in the
\* upper half of a 64 KiB window (int16_t keeps the low 16 bits of a pointer
\* difference).
HeapAddrs == {4096, 40960}

LowAddr == CHOOSE a \in HeapAddrs : \A b \in HeapAddrs : a <= b

\* The environment nothing goes wrong in.
PlainEnv ==
    [addr |-> LowAddr, garbage |-> ZeroBuf, ub |-> "crash", failAlloc |-> "none"]

Envs ==
    {[PlainEnv EXCEPT !.addr = a] : a \in HeapAddrs}
    \cup {[PlainEnv EXCEPT !.garbage = g] : g \in InitBufs}
    \cup {[PlainEnv EXCEPT !.ub = "go", !.addr = a] : a \in HeapAddrs}
    \cup {[PlainEnv EXCEPT !.failAlloc = f] : f \in {"raw", "fence", "attr"}}

\* The bytes of a permission artifact.  body is the content of UAPermission
\* before the signature block, simid the content of SignedInfo before its
\* DigestValue, dv the DigestValue text (NULLp: no such element), sigText the
\* SignatureValue text, and shape names the marker the document lacks.
MkXml(body, simid, dv, sigText, shape) ==
    (IF shape = "noUAPermission" THEN <<"<", "U", "A", "P", "e", "r", "m", "i", "s", "s", "i", "o", "n", " ", "t", "=", "\"", "1", "\"", ">">>
     ELSE <<"<", "U", "A", "P", "e", "r", "m", "i", "s", "s", "i", "o", "n", ">">>)
    \o body \o <<"<", "S", "i", "g", "n", "a", "t", "u", "r", "e", ">">>
    \o (IF shape = "noSignedInfo" THEN <<"<", "S", "i", "g", "n", "e", "d", "I", "n", "f", "o", " ", "I", "d", "=", "\"", "1", "\"", ">">>
        ELSE <<"<", "S", "i", "g", "n", "e", "d", "I", "n", "f", "o", ">">>)
    \o simid
    \o (IF dv = NULLp THEN <<>>
        ELSE <<"<", "D", "i", "g", "e", "s", "t", "V", "a", "l", "u", "e", ">">> \o Deref(dv) \o <<"<", "/", "D", "i", "g", "e", "s", "t", "V", "a", "l", "u", "e", ">">>)
    \o <<"<", "/", "S", "i", "g", "n", "e", "d", "I", "n", "f", "o", ">">>
    \o (IF shape = "noSignatureValue" THEN <<>>
        ELSE <<"<", "S", "i", "g", "n", "a", "t", "u", "r", "e", "V", "a", "l", "u", "e", ">">> \o sigText \o <<"<", "/", "S", "i", "g", "n", "a", "t", "u", "r", "e", "V", "a", "l", "u", "e", ">">>)
    \o <<"<", "/", "S", "i", "g", "n", "a", "t", "u", "r", "e", ">">> \o <<"<", "/", "U", "A", "P", "e", "r", "m", "i", "s", "s", "i", "o", "n", ">">>

Bodies == { <<"<", "P", " ", "a", "=", "\"", "1", "\"", "/", ">">>, <<"<", "P", "/", ">">>, <<"<", "Q", " ", "b", "=", "\"", "2", "\"", ">", "/", ">", "<", "/", "Q", ">">> }

Simids == { <<"<", "M", " ", "A", "=", "\"", "x", "\"", "/", ">">>, <<"<", "C", "a", "n", "o", "n", "i", "c", "a", "l", "i", "z", "a", "t", "i", "o", "n", "M", "e", "t", "h", "o", "d", " ", "A", "=", "\"", "x", "\"", "/", ">">> }

Shapes == {"ok", "noUAPermission", "noSignedInfo", "noSignatureValue"}

\* The DigestValue text that is the encoding of the digest the code computes
\* for a document with this body.
GoodDigest(body, shape) ==
    With(MkXml(body, <<>>, NULLp, <<>>, shape), LAMBDA xml :
         Base64Encode(VerifyBody(xml, LowAddr, ZeroBuf, "go").digest))

\* DigestValue texts: the right one, and ones that differ from it in the
\* last byte, in the first byte and in length; NULLp for no DigestValue.
DigestTexts(digest) ==
    With(digest, LAMBDA good :
    IF good = <<>> THEN {Ptr(good), NULLp}
    ELSE { Ptr(good),
           Ptr(SubSeq(good, 1, Len(good) - 1) \o <<"A">>),
           Ptr(<<"!">> \o Tail(good)),
           Ptr(good \o <<"x">>),
           Ptr(SubSeq(good, 1, Len(good) - 1)),
           Ptr(SubSeq(good, 1, Len(good) - 2)),
           NULLp })

SigKinds == {"issuer", "forged", "empty"}

\* The attributes of the baseline FlightParameters and UADetails elements.
PlainFlightParams ==
    [maxAltitude     |-> Ptr(<<"1", "2", "0", ".", "5">>),
     adcNumber       |-> Ptr(<<"A", "1">>),
     ficNumber       |-> Ptr(<<"F", "1">>),
     flightStartTime |-> Ptr(<<"2", "0", "2", "0", "-", "0", "1", "-", "0", "1", "T", "1", "0", ":", "0", "0", ":", "0", "0">>),
     flightEndTime   |-> Ptr(<<"2", "0", "2", "0", "-", "0", "1", "-", "0", "1", "T", "1", "1", ":", "4", "5", ":", "0", "0">>)]

PlainUaDetails == [uinNo |-> Ptr(<<"U", "1">>)]

\* FlightParameters / UADetails with one thing missing or malformed.
FlightVariants ==
    { [fp |-> Ptr(PlainFlightParams), ua |-> Ptr(PlainUaDetails)],
      [fp |-> NULLp, ua |-> Ptr(PlainUaDetails)],
      [fp |-> Ptr(PlainFlightParams), ua |-> NULLp],
      [fp |-> Ptr(PlainFlightParams), ua |-> Ptr([uinNo |-> NULLp])] }
    \cup
    { [fp |-> Ptr([PlainFlightParams EXCEPT ![a] = NULLp]),
       ua |-> Ptr(PlainUaDetails)] :
          a \in {"maxAltitude", "adcNumber", "ficNumber",
                 "flightStartTime", "flightEndTime"} }
    \cup
    { [fp |-> Ptr([PlainFlightParams EXCEPT ![a] = Ptr(<<"2", "0", "2", "0", "-", "0", "1", "-", "0", "1">>)]),
       ua |-> Ptr(PlainUaDetails)] :
          a \in {"flightStartTime", "flightEndTime"} }

PlainFlight == [fp |-> Ptr(PlainFlightParams), ua |-> Ptr(PlainUaDetails)]

\* The i-th Coordinate element of a generated fence.
Vertex(i) ==
    [element   |-> Ptr(TagCoordinate),
     latitude  |-> Ptr(<<"1", "2", ".">> \o <<PrintLo[17 + (i % 10)]>>),
     longitude |-> Ptr(<<"7", "7", ".">> \o <<PrintLo[17 + ((i * 3) % 10)]>>)]

\* The kinds of child a Coordinates element is enumerated with.
NodeKinds ==
    { Vertex(1), Vertex(2),
      [Vertex(3) EXCEPT !.longitude = NULLp],
      [Vertex(4) EXCEPT !.latitude = NULLp],
      [element |-> NULLp, latitude |-> NULLp, longitude |-> NULLp],
      [element |-> Ptr(<<"N", "o", "t", "e">>), latitude |-> NULLp, longitude |-> NULLp] }

SmallFences == UNION {[1..n -> NodeKinds] : n \in 0..MaxCoords}

\* Fences of n complete vertices, n around the limits of int8_t and uint8_t.
BigFences ==
    {[i \in 1..n |-> Vertex(i)] : n \in {4, 127, 128, 129, 255, 256, 257}}

PlainFence == [i \in 1..4 |-> Vertex(i)]

\* A document: its bytes and the tree the parser gives for them.
MkDoc(body, simid, shape, dv, sigKind, fence, flight) ==
    With(MkXml(body, simid, dv,
               IF sigKind = "issuer" THEN <<"S">>
               ELSE IF sigKind = "forged" THEN <<"F">> ELSE <<>>,
               shape),
         LAMBDA xml :
    LET sig == IF sigKind = "issuer"
               THEN Ptr([signs |-> VerifySignedInfo(xml, LowAddr, ZeroBuf,
                                                    "go").digest])
               ELSE IF sigKind = "forged" THEN Ptr([signs |-> <<>>])
               ELSE NULLp
    IN  [xml  |-> xml,
         tree |-> Ptr([signatureValue   |-> IF shape = "noSignatureValue"
                                             THEN NULLp ELSE sig,
                       digestValue      |-> dv,
                       coordinates      |-> fence,
                       flightParameters |-> flight.fp,
                       uaDetails        |-> flight.ua])])

PlainBody == <<"<", "P", " ", "a", "=", "\"", "1", "\"", "/", ">">>

PlainSimid == <<"<", "M", " ", "A", "=", "\"", "x", "\"", "/", ">">>

\* Documents that differ in what npnt_verify_permart looks at.
VerifyDocs ==
    { MkDoc(b, PlainSimid, "ok", dv, k, Ptr(PlainFence), PlainFlight) :
        b \in Bodies, k \in SigKinds,
        dv \in UNION {DigestTexts(GoodDigest(bb, "ok")) : bb \in Bodies} }
    \cup
    { MkDoc(PlainBody, m, s, Ptr(GoodDigest(PlainBody, s)), "issuer",
            Ptr(PlainFence), PlainFlight) : m \in Simids, s \in Shapes }

\* Documents that verify and differ in the fence and the flight parameters.
FlightDocs ==
    { MkDoc(PlainBody, PlainSimid, "ok", Ptr(GoodDigest(PlainBody, "ok")),
            "issuer", f, PlainFlight) :
        f \in {NULLp} \cup {Ptr(x) : x \in SmallFences \cup BigFences} }
    \cup
    { MkDoc(PlainBody, PlainSimid, "ok", Ptr(GoodDigest(PlainBody, "ok")),
            "issuer", Ptr(PlainFence), fl) : fl \in FlightVariants }

\* Bytes that are no XML document: the parser gives no tree.
BrokenDoc == [xml |-> <<"<", "U", "A", "P", "e", "r", "m", "i", "s", "s", "i", "o", "n", ">">>, tree |-> NULLp]

Docs == VerifyDocs \cup FlightDocs \cup {BrokenDoc}

\* What the caller passes: the document's bytes as they are, or their base64
\* encoding.
Plain(doc) == [text |-> doc.xml, encoded |-> FALSE, doc |-> doc]

Encoded(doc) ==
    [text |-> Base64Encode(Codes(doc.xml)), encoded |-> TRUE, doc |-> doc]

PlainDoc ==
    MkDoc(PlainBody, PlainSimid, "ok", Ptr(GoodDigest(PlainBody, "ok")),
          "issuer", Ptr(PlainFence), PlainFlight)

\* The calls: every document as plain bytes in the plain environment; the
\* documents whose handling depends on the environment in every environment;
\* and documents passed encoded, with and without the base64 flag.
Calls ==
    { [permart |-> Plain(d), b64 |-> FALSE, env |-> PlainEnv] : d \in Docs }
    \cup
    { [permart |-> Plain(d), b64 |-> FALSE, env |-> e] :
        e \in Envs,
        d \in { MkDoc(PlainBody, m, s, Ptr(GoodDigest(PlainBody, s)),
                      "issuer", Ptr(PlainFence), PlainFlight) :
                  m \in Simids, s \in Shapes }
              \cup { MkDoc(PlainBody, PlainSimid, "ok", NULLp, "issuer",
                           Ptr(PlainFence), PlainFlight) }
              \cup { MkDoc(PlainBody, PlainSimid, "ok",
                           Ptr(GoodDigest(PlainBody, "ok")), "issuer",
                           Ptr(PlainFence), fl) : fl \in FlightVariants } }
    \cup
    { [permart |-> p, b64 |-> b, env |-> PlainEnv] :
        b \in BOOLEAN,
        p \in {Plain(PlainDoc), Encoded(PlainDoc), Encoded(BrokenDoc)} }

-----------------------------------------------------------------------------
(* Spec: npnt_set_permart called on one handle                              *)

Init ==
    /\ handle = ZeroHandle
    /\ lastRet = NPNT_OK
    /\ lastCall = NULLp
    /\ lastVerify = NoVerify
    /\ crashed = FALSE
    /\ c_input = <<>> /\ c_garbage = NULLp /\ curr_ptr = 0
    /\ last_empty_element = NULLp /\ sha_stream = <<>> /\ c_maxw = -1
    /\ c_pc = "idle"
    /\ dt_string = NULLp /\ date_time = NULLp /\ dt_ret = 0 /\ dt_pc = "idle"

\* npnt_set_permart(handle, ...) with the handle of the model.  lastCall and
\* lastVerify are those of the call that stored the handle's raw bytes.
SetPermart(call) ==
    /\ ~crashed
    /\ \E r \in {SetPermartResult(handle, call.permart, call.b64, call.env)} :
           /\ handle' = r.handle
           /\ lastRet' = r.ret
           /\ crashed' = (r.ret = FAULT)
           /\ lastCall' = IF AlreadySet(handle) THEN lastCall
                          ELSE IF r.handle.raw_permart = NULLp THEN NULLp
                          ELSE Ptr(call)
           /\ lastVerify' = IF AlreadySet(handle) THEN lastVerify
                            ELSE r.verify
    /\ UNCHANGED canonVars /\ UNCHANGED timeVars

\* npnt_set_permart(NULL, ...): lines 33-35.
SetPermartNull ==
    /\ ~crashed
    /\ lastRet' = NPNT_UNALLOC_HANDLE
    /\ UNCHANGED <<handle, lastCall, lastVerify, crashed>>
    /\ UNCHANGED canonVars /\ UNCHANGED timeVars

Next == (\E call \in Calls : SetPermart(call)) \/ SetPermartNull

Spec == Init /\ [][Next]_vars

-----------------------------------------------------------------------------
(* The claims                                                               *)

\* C1 (one-shot guard): once the handle holds raw bytes, whatever the call
\* that stored them returned, every later npnt_set_permart call on the handle
\* (any input, any base64 flag, any environment) returns NPNT_ALREADY_SET and
\* leaves the whole handle (raw bytes, parsed tree, fence, flight params) as
\* it was.  A step that ends with NPNT_UNALLOC_HANDLE is a call made with
\* no handle, not a call on this one.
C1_OneShotGuard ==
    [][(handle.raw_permart # NULLp /\ lastRet' # NPNT_UNALLOC_HANDLE)
         => (lastRet' = NPNT_ALREADY_SET /\ handle' = handle)]_vars

\* C1's case: a second call on a handle whose first call stored raw bytes and
\* a fence has been rejected with NPNT_ALREADY_SET.
C1_SecondCallRejected ==
    /\ lastRet = NPNT_ALREADY_SET
    /\ handle.raw_permart # NULLp
    /\ handle.fence.nverts > 0

\* C2 (fence reset on downstream failure), as stated: when the call returned
\* NPNT_INV_BAD_ALT or NPNT_INV_FPARAMS, the handle's fence vertex count is
\* zero.
C2_FenceResetOnFailure ==
    lastRet \in {NPNT_INV_BAD_ALT, NPNT_INV_FPARAMS}
        => handle.fence.nverts = 0

\* C2's failing case: the call returned NPNT_INV_BAD_ALT and the vertex count
\* of the extracted fence is still in the handle.
C2_BadAltitudeKeepsCount ==
    lastRet = NPNT_INV_BAD_ALT /\ handle.fence.nverts > 0

\* C3 (fence exposure), as stated: after the call returned success, the
\* handle's fence.vertlat / fence.vertlon hold the latitudes and longitudes
\* of the Coordinate children of Coordinates, in document order.
C3_FenceExposure ==
    (lastRet = NPNT_OK /\ handle.raw_permart # NULLp)
        => LET tree   == Deref(handle.parsed_permart)
               coords == SelectSeq(Deref(tree.coordinates), IsCoordinate)
           IN  /\ handle.fence.vertlat =
                     Ptr([i \in DOMAIN coords |->
                             Atof(Deref(coords[i].latitude))])
               /\ handle.fence.vertlon =
                     Ptr([i \in DOMAIN coords |->
                             Atof(Deref(coords[i].longitude))])

\* C3's failing case: success on an artifact with four vertices, the count
\* is stored, and the handle's vertex arrays are still NULL.
C3_SuccessWithoutVertices ==
    /\ lastRet = NPNT_OK
    /\ handle.raw_permart # NULLp
    /\ handle.fence.nverts = 4
    /\ handle.fence.vertlat = NULLp
    /\ handle.fence.vertlon = NULLp

\* C4 (fence vertex count), as stated: when the artifact verified, no
\* allocation failed and Coordinates has N >= 1 Coordinate children, each
\* with latitude and longitude, a call that ended at or right after fence
\* extraction did not end with NPNT_BAD_FENCE and stored N as the count.
C4_VertexCount ==
    (/\ lastRet \in {NPNT_OK, NPNT_BAD_FENCE}
     /\ lastVerify.called /\ lastVerify.ret = NPNT_OK
     /\ Deref(lastCall).env.failAlloc = "none"
     /\ Deref(handle.parsed_permart).coordinates # NULLp
     /\ LET kids == Deref(Deref(handle.parsed_permart).coordinates)
        IN  /\ \E i \in DOMAIN kids : IsCoordinate(kids[i])
            /\ \A i \in DOMAIN kids :
                  IsCoordinate(kids[i]) =>
                      kids[i].latitude # NULLp /\ kids[i].longitude # NULLp)
        => /\ lastRet = NPNT_OK
           /\ handle.fence.nverts =
                 Len(SelectSeq(Deref(Deref(handle.parsed_permart).coordinates),
                               IsCoordinate))

\* C4's failing case: success on an artifact with 257 complete vertices, and
\* the count stored is 1.
C4_CountWrapped ==
    /\ lastRet = NPNT_OK
    /\ handle.raw_permart # NULLp
    /\ Len(Deref(Deref(handle.parsed_permart).coordinates)) = 257
    /\ handle.fence.nverts = 1

\* C5 (self-closing rewrite), as stated: when the scanned range is one
\* self-closing element, with attributes or without, the stream fed to the
\* digest is its open tag followed by its close tag.
C5_SelfClosingRewrite ==
    (c_pc = "done" /\ Len(c_input) = 1 /\ c_input[1].selfClosing)
        => sha_stream = c_input[1].canon

\* C5's failing case: the range <Foo/> has been scanned and the digest was
\* fed the range as it is.
C5_BareElementUntouched ==
    /\ c_pc = "done"
    /\ Len(c_input) = 1
    /\ c_input[1].raw = <<"<", "F", "o", "o", "/", ">">>
    /\ sha_stream = <<"<", "F", "o", "o", "/", ">">>

\* C6 (canonicalization identity), as stated: when the scanned range holds
\* no self-closing element, the stream fed to the digest is the range, byte
\* for byte.  (Stated for a scan that starts with the name buffer zeroed.)
C6_CanonIdentity ==
    (/\ c_pc = "done"
     /\ c_garbage = ZeroBuf
     /\ \A i \in DOMAIN c_input : ~c_input[i].selfClosing)
        => sha_stream = RawOf(c_input)

\* C6's failing case: an open tag with an attribute followed by the text
\* "/>": the digest was fed a close tag the range does not hold.
C6_TextRewritten ==
    /\ c_pc = "done"
    /\ c_garbage = ZeroBuf
    /\ RawOf(c_input) = <<"<", "a", " ", "b", "=", "\"", "1", "\"", ">", "/", ">">>
    /\ sha_stream = <<"<", "a", " ", "b", "=", "\"", "1", "\"", ">", ">", "<", "/", "a", ">">>

\* C7 (digest comparison strictness), as stated: once the signature has been
\* accepted and the body digest computed, verification succeeds only if the
\* DigestValue text is the base64 encoding of the digest, and every other
\* DigestValue (or none) gives NPNT_INV_DGST.
C7_DigestStrict ==
    (lastVerify.called /\ lastVerify.authOk /\ lastVerify.digest # <<>>)
        => IF Deref(handle.parsed_permart).digestValue
                = Ptr(Base64Encode(lastVerify.digest))
           THEN lastVerify.ret = NPNT_OK
           ELSE lastVerify.ret = NPNT_INV_DGST

\* C7's failing case: the DigestValue text is the encoding followed by one
\* more byte, and verification succeeded.
C7_LongerValueAccepted ==
    /\ lastVerify.called /\ lastVerify.authOk /\ lastVerify.digest # <<>>
    /\ Deref(handle.parsed_permart).digestValue
          = Ptr(Base64Encode(lastVerify.digest) \o <<"x">>)
    /\ lastVerify.ret = NPNT_OK

\* C8 (missing SignedInfo markers), as stated: when the raw bytes hold no
\* "<SignedInfo>" or no "<SignatureValue", verification returns NPNT_INV_ART
\* having canonicalized no artifact byte and not called the signature
\* primitive.
C8_MissingMarkers ==
    (/\ lastVerify.called
     /\ \/ StrStr(Deref(handle.raw_permart), TagSignedInfo) = 0
        \/ StrStr(Deref(handle.raw_permart), TagSignatureValue) = 0)
        => /\ lastVerify.ret = NPNT_INV_ART
           /\ lastVerify.siFed = <<>>
           /\ lastVerify.bodyFed = <<>>
           /\ ~lastVerify.authCalled

\* C8's failing case: the raw bytes hold no "<SignatureValue", and
\* verification canonicalized SignedInfo bytes and went on to the signature
\* stage, which returned NPNT_INV_SIGN.
C8_ScannedWithoutMarker ==
    /\ lastVerify.called
    /\ StrStr(Deref(handle.raw_permart), TagSignatureValue) = 0
    /\ lastVerify.siFed # <<>>
    /\ lastVerify.ret = NPNT_INV_SIGN

\* C9 (timestamp conversion), corrected: converting 2020-01-01T10:00:00
\* returns 0 and stores tm_year = 120 (2020 - 1900), tm_mon = 1, tm_mday = 1,
\* tm_hour = 5, tm_min = -30, tm_sec = 0: the 5 h 30 min offset is taken from
\* the hour field and from the minute field separately, with no borrow.
C9_RawFieldSubtraction ==
    (/\ dt_pc = "ret"
     /\ dt_string = Ptr(<<"2", "0", "2", "0", "-", "0", "1", "-", "0", "1", "T", "1", "0", ":", "0", "0", ":", "0", "0">>)
     /\ date_time # NULLp)
        => /\ dt_ret = 0
           /\ Deref(date_time) =
                 [tm_year |-> 120, tm_mon |-> 1, tm_mday |-> 1,
                  tm_hour |-> 5, tm_min |-> -30, tm_sec |-> 0]

\* C9's case: the conversion of 2020-01-01T10:00:00 into a struct tm has
\* returned.
C9_Converted ==
    /\ dt_pc = "ret"
    /\ dt_string = Ptr(<<"2", "0", "2", "0", "-", "0", "1", "-", "0", "1", "T", "1", "0", ":", "0", "0", ":", "0", "0">>)
    /\ date_time # NULLp
    /\ dt_ret = 0

\* C9 as stated: converting 2020-01-01T10:00:00 yields year 2020, month 1,
\* day 1, hour 4, minute 30, second 0.
C9_AsStated ==
    (/\ dt_pc = "ret"
     /\ dt_string = Ptr(<<"2", "0", "2", "0", "-", "0", "1", "-", "0", "1", "T", "1", "0", ":", "0", "0", ":", "0", "0">>)
     /\ date_time # NULLp)
        => /\ Deref(date_time).tm_year + TmYearBase = 2020
           /\ Deref(date_time).tm_mon = 1
           /\ Deref(date_time).tm_mday = 1
           /\ Deref(date_time).tm_hour = 4
           /\ Deref(date_time).tm_min = 30
           /\ Deref(date_time).tm_sec = 0

\* C10 (tag-name buffer bound), as stated: every write of the scan into
\* last_empty_element is at an index below its capacity.
C10_NameBufferBound == c_maxw < NameCap

\* C10's failing case: the scan has written last_empty_element at index 20
\* or above, and the process faulted on it.
C10_WriteOutside == c_pc = "crash" /\ c_maxw >= NameCap

=============================================================================
